---------------------------- MODULE Spec2Model ----------------------------
(***************************************************************************)
(* State-machine model of the battleship rules engine in                   *)
(* src/src/server/bs/runserver.py: ShipModel, PlayerModel (one board per   *)
(* player) and GameModel (one match).                                      *)
(*                                                                         *)
(* Reading of the source.  The file holds a number of statements that      *)
(* cannot be evaluated at all, whatever the data: a missing comma in the   *)
(* SHIPS literal (line 23), dict(lambda ...) for dict(map(lambda ...))     *)
(* (line 41), a call of add_ship_coords_to_grid where the method is named  *)
(* add_ship_coord_to_grid (lines 144/148), len(filter(...)) (line 153),    *)
(* iteration over the keys of self.ships where the ship objects are used   *)
(* (lines 118, 204), "other_players (" for "other_players = (" and the     *)
(* key [0][0] returned where the board [0][1] is used (lines 299-309),     *)
(* the names msg and player for hit_msg and this_player (lines 317, 319)   *)
(* and a missing self parameter (line 322).  Each of these is read as the  *)
(* name or value its own use site requires; nothing else is repaired.      *)
(* Every statement that does evaluate is modelled as it evaluates,         *)
(* including numpy's slice truncation, IndexError on an index outside the  *)
(* array, the field exported as "grid_attempts", the value appended to     *)
(* moves_index, and the attributes GameModel.__init__ does not assign.     *)
(***************************************************************************)
EXTENDS Integers, Sequences, FiniteSets, TLC

VARIABLES players, game_status, win_player, ret, win_count

vars == <<players, game_status, win_player, ret, win_count>>

-----------------------------------------------------------------------------
(* Python values that share a slot with None are strings.                  *)
None == "None"
PyTrue == "True"
PyFalse == "False"

PyBool(b) == IF b THEN PyTrue ELSE PyFalse

(* Module constants, lines 18-43.                                          *)
GRID_SIZE == 10

SHIPS ==
  [ carrier    |-> [intcode |-> 1, length |-> 5],
    battleship |-> [intcode |-> 2, length |-> 4],
    cruiser    |-> [intcode |-> 3, length |-> 3],
    submarine  |-> [intcode |-> 4, length |-> 3],
    destroyer  |-> [intcode |-> 5, length |-> 2] ]

ShipIds == DOMAIN SHIPS

SHIPS_INTCODES ==
  [ i \in {SHIPS[s].intcode : s \in ShipIds} |->
      CHOOSE s \in ShipIds : SHIPS[s].intcode = i ]

MOVE_HIT == 1
MOVE_MISS == 2

(* Indices of one axis of an np.zeros((GRID_SIZE, GRID_SIZE)) array, and   *)
(* the array itself, indexed [y][x] as in the source.                      *)
Idx == 0 .. (GRID_SIZE - 1)

zeros == [y \in Idx |-> [x \in Idx |-> 0]]

Min(a, b) == IF a < b THEN a ELSE b

-----------------------------------------------------------------------------
(* ShipModel                                                               *)

ShipModel(id_, length, intcode) ==
  [id |-> id_, length |-> length, intcode |-> intcode, hits |-> 0, sunk |-> FALSE]

(* Variant of add_hit without the cap on hits.                             *)
add_hit_uncapped(ship) ==
  LET h == ship.hits + 1
  IN  [ship EXCEPT !.hits = h,
                   !.sunk = IF h >= ship.length THEN TRUE ELSE ship.sunk]

add_hit(ship) ==
  LET h == IF ship.hits < ship.length THEN ship.hits + 1 ELSE ship.hits
  IN  [ship EXCEPT !.hits = h,
                   !.sunk = IF h >= ship.length THEN TRUE ELSE ship.sunk]

ship_export(ship) ==
  [hits |-> ship.hits, sunk |-> ship.sunk, length |-> ship.length,
   intcode |-> ship.intcode]

get_ship_id_by_intcode(intcode) == SHIPS_INTCODES[intcode]

make_ship_by_id(ship_id) ==
  ShipModel(ship_id, SHIPS[ship_id].length, SHIPS[ship_id].intcode)

-----------------------------------------------------------------------------
(* PlayerModel.  uuid4 values are modelled by the join number n: the n-th  *)
(* player of the match gets id "p<n>" and session "s<n>".  ships is a      *)
(* function from the placed ship ids to their ShipModel; moves_map is the  *)
(* set of its keys (every value stored is True).                           *)

UUIDS == <<"p1", "p2", "p3">>
SESSIONS == <<"s1", "s2", "s3">>

PlayerModel(n) ==
  [ id            |-> UUIDS[n],
    session_id    |-> SESSIONS[n],
    moves_index   |-> <<>>,
    moves_map     |-> {},
    ships         |-> <<>>,
    grid          |-> zeros,
    grid_attempts |-> zeros,
    sunk_all      |-> FALSE ]

has_ship(player, ship_id) == ship_id \in DOMAIN player.ships

(* Variant of check_all_ships_added that is satisfied by any ship.         *)
check_all_ships_added_some(player) ==
  Cardinality(DOMAIN player.ships) > 0

check_all_ships_added(player) ==
  Cardinality(DOMAIN player.ships) = Cardinality(ShipIds)

(* get_ship_arr returns a numpy view: the set of <<x, y>> cells the slice  *)
(* addresses.  A slice bound past the end of the axis is clipped; a plain  *)
(* index past the end raises IndexError.                                   *)
get_ship_arr(ship_len, coords, orientation) ==
  LET x == coords[1]
      y == coords[2]
  IN  IF orientation = "x"
        THEN IF y \in Idx
               THEN [raised |-> None,
                     cells  |-> {<<xx, y>> : xx \in x .. (Min(x + ship_len, GRID_SIZE) - 1)}]
               ELSE [raised |-> "IndexError", cells |-> {}]
        ELSE IF orientation = "y"
               THEN IF x \in Idx
                      THEN [raised |-> None,
                            cells  |-> {<<x, yy>> : yy \in y .. (Min(y + ship_len, GRID_SIZE) - 1)}]
                      ELSE [raised |-> "IndexError", cells |-> {}]
               ELSE [raised |-> "TypeError", cells |-> {}]

(* Variant of is_space_available that looks at the first cell only.        *)
is_space_available_origin(grid, ship_arr) ==
  \A c \in ship_arr :
    (\A d \in ship_arr : c[1] <= d[1] /\ c[2] <= d[2]) => ~ (grid[c[2]][c[1]] > 0)

is_space_available(grid, ship_arr) ==
  Cardinality({c \in ship_arr : grid[c[2]][c[1]] > 0}) = 0

add_ship_coords_to_grid(grid, ship_arr, ship_intit) ==
  [y \in Idx |-> [x \in Idx |-> IF <<x, y>> \in ship_arr THEN ship_intit ELSE grid[y][x]]]

(* add_ship: the board after the call and what the call returned           *)
(* (PyTrue, PyFalse, or the exception it raised).                          *)
add_ship(player, ship_id, coords, orientation) ==
  IF has_ship(player, ship_id)
    THEN [player |-> player, status |-> PyFalse]
    ELSE
      LET ship == make_ship_by_id(ship_id)
          arr  == get_ship_arr(ship.length, coords, orientation)
      IN  IF arr.raised # None
            THEN [player |-> player, status |-> arr.raised]
            ELSE IF ~ is_space_available(player.grid, arr.cells)
                   THEN [player |-> player, status |-> PyFalse]
                   ELSE [player |->
                           [player EXCEPT
                              !.grid = add_ship_coords_to_grid(player.grid, arr.cells, ship.intcode),
                              !.ships = [s \in DOMAIN player.ships \cup {ship_id} |->
                                           IF s = ship_id THEN ship ELSE player.ships[s]]],
                         status |-> PyTrue]


(* The ship under a cell.  grid[y][x] raises IndexError when either index  *)
(* lies past the end of its axis; a marker 0 gives None (here: <<>>).      *)
get_ship_at_coords(player, coords) ==
  LET x == coords[1]
      y == coords[2]
  IN  IF ~ (y \in Idx /\ x \in Idx)
        THEN [raised |-> "IndexError", ship |-> <<>>]
        ELSE IF player.grid[y][x] = 0
               THEN [raised |-> None, ship |-> <<>>]
               ELSE [raised |-> None,
                     ship   |-> <<player.ships[get_ship_id_by_intcode(player.grid[y][x])]>>]

(* Variant of add_grid_attempt that adds the code to the cell.              *)
add_grid_attempt_accumulate(grid_attempts, is_hit, coords) ==
  LET x    == coords[1]
      y    == coords[2]
      code == IF is_hit THEN MOVE_HIT ELSE MOVE_MISS
  IN  [grid_attempts EXCEPT ![y][x] = @ + code]

(* Variant of add_grid_attempt with the two codes exchanged.               *)
add_grid_attempt_swapped(grid_attempts, is_hit, coords) ==
  LET x    == coords[1]
      y    == coords[2]
      code == IF is_hit THEN MOVE_MISS ELSE MOVE_HIT
  IN  [grid_attempts EXCEPT ![y][x] = code]

add_grid_attempt(grid_attempts, is_hit, coords) ==
  LET x    == coords[1]
      y    == coords[2]
      code == IF is_hit THEN MOVE_HIT ELSE MOVE_MISS
  IN  [grid_attempts EXCEPT ![y][x] = code]

(* Variant of is_sunk_all that is satisfied by one sunk ship.               *)
is_sunk_all_any(ships) ==
  Cardinality({s \in DOMAIN ships : ships[s].sunk}) > 0

is_sunk_all(ships) ==
  Cardinality({s \in DOMAIN ships : ~ ships[s].sunk}) = 0

(* register_hit: the board after the call and the returned triple          *)
(* (status, data, msg); data is <<>> for None and <<dict>> otherwise.      *)
(* An exception leaves the board as it was when it was raised.  The value  *)
(* appended to moves_index is moves_map[coords], the bool True; an entry   *)
(* of the log is modelled as a tuple (True as <<TRUE>>) so that it can be  *)
(* compared with a coordinate pair.                                        *)
register_hit(player, coords) ==
  IF ~ check_all_ships_added(player)
    THEN [player |-> player, status |-> PyFalse, data |-> <<>>,
          msg |-> "not_all_ships_added"]
  ELSE IF player.sunk_all
    THEN [player |-> player, status |-> PyFalse, data |-> <<>>,
          msg |-> "all_ships_already_sunk"]
  ELSE
    LET at == get_ship_at_coords(player, coords)
    IN  IF at.raised # None
          THEN [player |-> player, status |-> at.raised, data |-> <<>>, msg |-> None]
          ELSE
            LET is_hit == at.ship # <<>>
                logged ==
                  [player EXCEPT
                     !.grid_attempts = add_grid_attempt(player.grid_attempts, is_hit, coords),
                     !.moves_map     = player.moves_map \cup {coords},
                     !.moves_index   = Append(player.moves_index, <<TRUE>>)]
            IN  IF ~ is_hit
                  THEN [player |-> logged, status |-> PyTrue,
                        data |-> <<[hit |-> FALSE, sunk |-> None, sunk_all |-> FALSE]>>,
                        msg |-> None]
                  ELSE
                    LET ship  == add_hit(at.ship[1])
                        ships == [logged.ships EXCEPT ![ship.id] = ship]
                        after == [logged EXCEPT
                                    !.ships = ships,
                                    !.sunk_all = IF is_sunk_all(ships) THEN TRUE
                                                 ELSE logged.sunk_all]
                    IN  [player |-> after, status |-> PyTrue,
                         data |-> <<[hit |-> TRUE, sunk |-> PyBool(ship.sunk),
                                     sunk_all |-> after.sunk_all]>>,
                         msg |-> None]

(* PlayerModel.export.  Optional fields are <<>> for None and <<v>> for a  *)
(* value; the exported ship list is modelled as the set of its entries.    *)
export(player, this_player_id) ==
  LET is_this_player == this_player_id = player.id
  IN  [ id            |-> player.id,
        moves_index   |-> player.moves_index,
        sunk_all      |-> player.sunk_all,
        grid_attempts |-> player.grid,
        grid          |-> IF is_this_player THEN <<player.grid>> ELSE <<>>,
        ships         |-> IF is_this_player
                            THEN <<{ship_export(player.ships[s]) : s \in DOMAIN player.ships}>>
                            ELSE <<>> ]

-----------------------------------------------------------------------------
(* GameModel.  players is the insertion-ordered dict, as the sequence of   *)
(* its values in join order; a player is addressed by its position.        *)
(* win_player holds the id of the PlayerModel the source stores.           *)
(* win_count is a history variable: the number of register_winner calls.   *)

Game == [players |-> players, game_status |-> game_status,
         win_player |-> win_player, win_count |-> win_count]

(* Variant of add_player whose limit is off by one.                        *)
add_player_off_by_one(g) ==
  IF Len(g.players) > 2
    THEN [game |-> g, player |-> None]
    ELSE LET player == PlayerModel(Len(g.players) + 1)
         IN  [game |-> [g EXCEPT !.players = Append(g.players, player)],
              player |-> player.id]

add_player(g) ==
  IF Len(g.players) >= 2
    THEN [game |-> g, player |-> None]
    ELSE LET player == PlayerModel(Len(g.players) + 1)
         IN  [game |-> [g EXCEPT !.players = Append(g.players, player)],
              player |-> player.id]

game_export(g, this_player_id) ==
  [ game_status |-> g.game_status,
    win_player  |-> g.win_player,
    players     |-> [i \in 1 .. Len(g.players) |-> export(g.players[i], this_player_id)] ]

(* Variant of get_opposing_player whose filter keeps the caller.           *)
get_opposing_player_same(g, this) ==
  LET other_players == {i \in 1 .. Len(g.players) : g.players[i].id = g.players[this].id}
  IN  IF Cardinality(other_players) = 0
        THEN 0
        ELSE CHOOSE i \in other_players : \A j \in other_players : i <= j

(* Position of the first other player in join order, 0 for None.           *)
get_opposing_player(g, this) ==
  LET other_players == {i \in 1 .. Len(g.players) : g.players[i].id # g.players[this].id}
  IN  IF Cardinality(other_players) = 0
        THEN 0
        ELSE CHOOSE i \in other_players : \A j \in other_players : i <= j

register_winner(g, player) ==
  [g EXCEPT !.game_status = PyFalse,
            !.win_player  = g.players[player].id,
            !.win_count   = @ + 1]

make_move(g, this_player, coords) ==
  LET oppose_player == get_opposing_player(g, this_player)
  IN  IF oppose_player = 0
        THEN [game |-> g, status |-> PyFalse, data |-> <<>>, msg |-> "no_opposing_player"]
        ELSE
          LET hit == register_hit(g.players[oppose_player], coords)
              g1  == [g EXCEPT !.players[oppose_player] = hit.player]
          IN  IF hit.status \notin {PyTrue, PyFalse}
                THEN [game |-> g1, status |-> hit.status, data |-> <<>>, msg |-> None]
                ELSE IF hit.status = PyFalse
                  THEN [game |-> g1, status |-> PyFalse, data |-> <<>>, msg |-> hit.msg]
                  ELSE [game |-> IF hit.player.sunk_all
                                   THEN register_winner(g1, this_player)
                                   ELSE g1,
                        status |-> PyTrue, data |-> hit.data, msg |-> None]

-----------------------------------------------------------------------------
(* The state after GameModel(): no player; game_status and win_player are  *)
(* the class attributes, which __init__ leaves unassigned (lines 253-254   *)
(* bind locals).                                                           *)
Init ==
  /\ players = <<>>
  /\ game_status = None
  /\ win_player = None
  /\ win_count = 0
  /\ ret = [op |-> "init", args |-> <<>>, status |-> None, data |-> <<>>, msg |-> None]

SetGame(g) ==
  /\ players' = g.players
  /\ game_status' = g.game_status
  /\ win_player' = g.win_player
  /\ win_count' = g.win_count

(* One call of each operation of the core; ret is the last call: its       *)
(* operation, its arguments and what it returned.                          *)
AddPlayer ==
  LET r == add_player(Game)
  IN  /\ SetGame(r.game)
      /\ ret' = [op |-> "add_player", args |-> <<>>, status |-> r.player,
                 data |-> <<>>, msg |-> None]

AddShip(p, ship_id, coords, orientation) ==
  LET r == add_ship(players[p], ship_id, coords, orientation)
  IN  /\ players' = [players EXCEPT ![p] = r.player]
      /\ ret' = [op |-> "add_ship", args |-> <<p, ship_id, coords, orientation>>,
                 status |-> r.status, data |-> <<>>, msg |-> None]
      /\ UNCHANGED <<game_status, win_player, win_count>>

MakeMove(p, coords) ==
  LET r == make_move(Game, p, coords)
  IN  /\ SetGame(r.game)
      /\ ret' = [op |-> "make_move", args |-> <<p, coords>>, status |-> r.status,
                 data |-> r.data, msg |-> r.msg]

-----------------------------------------------------------------------------
(* Inputs.  The routes (lines 471-481) admit every ship id of the catalog, *)
(* the orientations x and y, and coordinates of one or two digits.         *)
Orientations == {"x", "y"}

Joined == 1 .. Len(players)

(* The standard layout: the ship with intcode i lies in row i - 1 from     *)
(* column 0, horizontally.                                                 *)
LayoutOrigin(ship_id) == <<0, SHIPS[ship_id].intcode - 1>>

(* Longest attack log a board reaches in Spec.                             *)
MaxMoves == 3

(* Targets in Spec: the destroyer's two cells and the cruiser's first cell *)
(* in the standard layout, open water, and a column past the grid.         *)
FireCoords == {<<0, 4>>, <<1, 4>>, <<0, 2>>, <<5, 5>>, <<GRID_SIZE, 0>>}

Fire ==
  \E p \in Joined, c \in FireCoords :
    /\ \A q \in Joined \ {p} : Len(players[q].moves_index) < MaxMoves
    /\ MakeMove(p, c)

Place ==
  \E p \in Joined, k \in ShipIds : AddShip(p, k, LayoutOrigin(k), "x")

Next == AddPlayer \/ Place \/ Fire

Spec == Init /\ [][Next]_vars

-----------------------------------------------------------------------------
(* The placement phase of the first board with broad inputs: two origins  *)
(* in the top-left corner, whose footprints cross, and one origin near the *)
(* bottom-right corner, whose footprints run off the grid on either axis;  *)
(* and, for the destroyer, an origin in the first column past the grid.    *)
PlaceCoords == {<<0, 0>>, <<0, 1>>, <<GRID_SIZE - 2, GRID_SIZE - 2>>}

PlaceInputs ==
  (ShipIds \X PlaceCoords \X Orientations)
    \cup ({"destroyer"} \X {<<GRID_SIZE, 0>>} \X Orientations)

PlaceAny ==
  \E in \in PlaceInputs :
    /\ Len(players) >= 1
    /\ AddShip(1, in[1], in[2], in[3])

NextPlace == AddPlayer \/ PlaceAny

SpecPlace == Init /\ [][NextPlace]_vars

-----------------------------------------------------------------------------
(* A whole match: both boards in the standard layout, each attacker firing *)
(* at the first cell, in row-major order, that holds a ship of the         *)
(* opponent and has no recorded attack (<<0, 0>> when there is none).      *)
FreshShipCells(player) ==
  {c \in Idx \X Idx : player.grid[c[2]][c[1]] # 0 /\ player.grid_attempts[c[2]][c[1]] = 0}

NextTarget(p) ==
  LET o == get_opposing_player(Game, p)
      fresh == IF o = 0 THEN {} ELSE FreshShipCells(players[o])
  IN  IF fresh = {}
        THEN <<0, 0>>
        ELSE CHOOSE c \in fresh :
               \A d \in fresh : c[2] < d[2] \/ (c[2] = d[2] /\ c[1] <= d[1])

FireNext == \E p \in Joined : MakeMove(p, NextTarget(p))

NextDuel == AddPlayer \/ Place \/ FireNext

SpecDuel == Init /\ [][NextDuel]_vars

-----------------------------------------------------------------------------
(* Vocabulary of the properties.                                           *)

Cells == Idx \X Idx

(* Coordinates of one axis up to and including the first one off the grid. *)
Coords == (0 .. GRID_SIZE) \X (0 .. GRID_SIZE)

(* The cells a ship of kind k is meant to occupy from origin c.            *)
Footprint(k, c, o) ==
  IF o = "x"
    THEN {<<c[1] + i, c[2]>> : i \in 0 .. (SHIPS[k].length - 1)}
    ELSE {<<c[1], c[2] + i>> : i \in 0 .. (SHIPS[k].length - 1)}

Occupied(board, cell) == cell \in Cells /\ board.grid[cell[2]][cell[1]] # 0

(* The cells of a board's ship grid that carry the marker of kind k.       *)
MarkedCells(board, k) ==
  {c \in Cells : board.grid[c[2]][c[1]] = SHIPS[k].intcode}

ShipCells(board) == {c \in Cells : board.grid[c[2]][c[1]] # 0}

PlayerIds == {players[i].id : i \in Joined}

Opponent(p) == get_opposing_player(Game, p)

-----------------------------------------------------------------------------
(* C1: the export of a board for a viewer who is not its owner has no grid *)
(* and no ships, and its grid_attempts field equals the board's recorded   *)
(* attack results (so a cell never attacked reads 0).                      *)
C1_ForeignExportHidesLayout ==
  \A i \in Joined : \A v \in (PlayerIds \cup {None}) \ {players[i].id} :
    LET e == export(players[i], v)
    IN  /\ e.grid = <<>>
        /\ e.ships = <<>>
        /\ e.grid_attempts = players[i].grid_attempts

(* C2: once a winner is set, no step changes the winner or makes the       *)
(* in-progress flag anything but false.                                    *)
C2_WinnerIrreversible ==
  [][win_player # None => (win_player' = win_player /\ game_status' = PyFalse)]_vars

(* C3: once a winner is set, make_move by any player at any cell of the    *)
(* grid is rejected and leaves both boards as they are.                    *)
C3_NoMoveAfterWinner ==
  win_player # None =>
    \A p \in Joined, c \in Cells :
      LET r == make_move(Game, p, c)
      IN  r.status = PyFalse /\ r.game.players = players

(* C4: when the defender has placed all 5 ships and the attacker's         *)
(* accepted moves cover every ship cell of the defender's board, the       *)
(* defender's sunk_all is set, the winner is the attacker, the in-progress *)
(* flag is false and the winner was assigned exactly once.                 *)
C4_CoverageWinsOnce ==
  \A a \in Joined :
    LET d == Opponent(a)
    IN  (/\ d # 0
         /\ Cardinality(DOMAIN players[d].ships) = 5
         /\ ShipCells(players[d]) \subseteq players[d].moves_map)
        => /\ players[d].sunk_all
           /\ win_player = players[a].id
           /\ game_status = PyFalse
           /\ win_count = 1

C6_OffGridRejected ==
  /\ \A i \in Joined, k \in ShipIds, c \in Cells, o \in Orientations :
       ~ (Footprint(k, c, o) \subseteq Cells)
         => LET r == add_ship(players[i], k, c, o)
            IN  /\ r.status = PyFalse
                /\ r.player.grid = players[i].grid
                /\ r.player.ships = players[i].ships
  /\ \A i \in Joined : \A k \in DOMAIN players[i].ships :
       Cardinality(MarkedCells(players[i], k)) = SHIPS[k].length

(* C7: register_hit on a board with fewer than 5 ships, at any coordinates *)
(* the route admits, returns (False, None, "not_all_ships_added") and      *)
(* leaves the board (attack grid, log, ships, sunk_all) as it was.         *)
C7_IncompleteBoardRejects ==
  \A i \in Joined, c \in Coords :
    Cardinality(DOMAIN players[i].ships) < 5
      => LET r == register_hit(players[i], c)
         IN  /\ r.status = PyFalse
             /\ r.data = <<>>
             /\ r.msg = "not_all_ships_added"
             /\ r.player = players[i]

(* The last call was a make_move against a board holding four ships; it   *)
(* was rejected for that reason and the board has no recorded attack.      *)
C7_Witness ==
  /\ ret.op = "make_move"
  /\ ret.status = PyFalse
  /\ ret.msg = "not_all_ships_added"
  /\ LET d == Opponent(ret.args[1])
     IN  /\ d # 0
         /\ Cardinality(DOMAIN players[d].ships) = 4
         /\ players[d].grid_attempts = zeros
         /\ players[d].moves_index = <<>>
         /\ ~ players[d].sunk_all

(* C8: the match never holds more than 2 players; add_player with fewer    *)
(* than 2 joined returns a new, empty board under a fresh id, and with 2   *)
(* joined returns None and leaves the player mapping as it was.            *)
C8_AtMostTwoPlayers ==
  /\ Len(players) <= 2
  /\ LET r == add_player(Game)
         n == Len(players)
     IN  IF n >= 2
           THEN r.player = None /\ r.game.players = players
           ELSE /\ r.player # None
                /\ r.player \notin PlayerIds
                /\ Len(r.game.players) = n + 1
                /\ \A i \in Joined : r.game.players[i] = players[i]
                /\ r.game.players[n + 1].id = r.player
                /\ r.game.players[n + 1].ships = <<>>
                /\ r.game.players[n + 1].grid = zeros
                /\ r.game.players[n + 1].grid_attempts = zeros

(* The last call was an add_player made with two players joined; it        *)
(* returned None and two players are joined.                               *)
C8_Witness ==
  /\ ret.op = "add_player"
  /\ ret.status = None
  /\ Len(players) = 2

(* C9: for every ship, hits never exceeds length, sunk holds exactly when  *)
(* hits equals length, add_hit on a sunk ship changes nothing, and no step *)
(* lowers a ship's hits.                                                   *)
C9_ShipState ==
  \A i \in Joined : \A k \in DOMAIN players[i].ships :
    LET s == players[i].ships[k]
    IN  /\ s.hits <= s.length
        /\ s.sunk <=> (s.hits = s.length)
        /\ s.sunk => add_hit(s) = s

C9_HitsMonotone ==
  \A i \in Joined : \A k \in DOMAIN players[i].ships :
    /\ i <= Len(players')
    /\ k \in DOMAIN players'[i].ships
    /\ players'[i].ships[k].hits >= players[i].ships[k].hits

C9_ShipInvariant == [] C9_ShipState /\ [][C9_HitsMonotone]_vars

(* The last call hit the destroyer for the third time: every recorded      *)
(* attack on the board is on one of its two cells, three attacks are       *)
(* logged, and the destroyer is sunk with hits 2.                          *)
C9_Witness ==
  /\ ret.op = "make_move"
  /\ ret.status = PyTrue
  /\ LET d == Opponent(ret.args[1])
     IN  /\ d # 0
         /\ Len(players[d].moves_index) = 3
         /\ players[d].moves_map \subseteq MarkedCells(players[d], "destroyer")
         /\ players[d].ships["destroyer"].sunk
         /\ players[d].ships["destroyer"].hits = 2

C11_OffGridMoveRejected ==
  \A p \in Joined, c \in Coords \ Cells :
    LET r == make_move(Game, p, c)
    IN  r.status = PyFalse /\ r.game.players = players

C13_SunkAllState ==
  \A i \in Joined :
    players[i].sunk_all
      <=> /\ Cardinality(DOMAIN players[i].ships) = 5
          /\ \A k \in DOMAIN players[i].ships : players[i].ships[k].sunk

C13_SunkAllStays ==
  \A i \in Joined : players[i].sunk_all => players'[i].sunk_all

C14_GridMatchesShips ==
  \A i \in Joined :
    LET b == players[i]
    IN  /\ \A c \in ShipCells(b) :
             Cardinality({k \in DOMAIN b.ships : b.ships[k].intcode = b.grid[c[2]][c[1]]}) = 1
        /\ \A k \in DOMAIN b.ships : MarkedCells(b, k) # {}
        /\ \A k \in DOMAIN b.ships, c \in Coords, o \in Orientations :
             LET r == add_ship(b, k, c, o)
             IN  r.status = PyFalse /\ r.player = b

(* C15: with two players joined, make_move by a player whose own board     *)
(* holds fewer than 5 ships is not accepted, at any cell.                  *)
C15_AttackerMustHavePlaced ==
  Len(players) = 2 =>
    \A p \in Joined, c \in Cells :
      Cardinality(DOMAIN players[p].ships) < 5
        => make_move(Game, p, c).status # PyTrue

(* C16: an accepted register_hit at c appends c to the board's log, and a  *)
(* rejected one leaves the log as it was; every entry of a log is a        *)
(* coordinate that was attacked.                                           *)
C16_LogHoldsCoordinates ==
  \A i \in Joined :
    /\ \A n \in 1 .. Len(players[i].moves_index) :
         players[i].moves_index[n] \in players[i].moves_map
    /\ \A c \in Cells :
         LET r == register_hit(players[i], c)
         IN  r.player.moves_index =
               IF r.status = PyTrue
                 THEN Append(players[i].moves_index, c)
                 ELSE players[i].moves_index


C18_HitsAreDistinctCells ==
  \A i \in Joined :
    LET b == players[i]
        HitCells(k) == {c \in MarkedCells(b, k) : b.grid_attempts[c[2]][c[1]] = MOVE_HIT}
    IN  /\ \A k \in DOMAIN b.ships :
             /\ b.ships[k].hits = Cardinality(HitCells(k))
             /\ b.ships[k].sunk => HitCells(k) = MarkedCells(b, k)
        /\ b.sunk_all => \A c \in ShipCells(b) : b.grid_attempts[c[2]][c[1]] = MOVE_HIT

(* C19: on a board with a recorded attack, add_ship of any kind from any   *)
(* origin returns False and changes nothing, and no step changes the ship  *)
(* grid or the set of placed kinds.                                        *)
C19_PlacementClosed ==
  \A i \in Joined :
    players[i].moves_index # <<>>
      => \A k \in ShipIds, c \in Coords, o \in Orientations :
           LET r == add_ship(players[i], k, c, o)
           IN  r.status = PyFalse /\ r.player = players[i]

C19_GridFrozen ==
  \A i \in Joined :
    players[i].moves_index # <<>>
      => /\ players'[i].grid = players[i].grid
         /\ DOMAIN players'[i].ships = DOMAIN players[i].ships

C19_NoPlacementAfterAttack == [] C19_PlacementClosed /\ [][C19_GridFrozen]_vars

(* The last call was an add_ship on a board with a recorded attack; it     *)
(* returned False.                                                         *)
C19_Witness ==
  /\ ret.op = "add_ship"
  /\ ret.status = PyFalse
  /\ players[ret.args[1]].moves_index # <<>>
  /\ players[ret.args[1]].grid_attempts # zeros

(* C20: game_status is a boolean, true exactly when no winner is set; a    *)
(* new match has game_status true and no winner.                           *)
C20_StatusTracksWinner ==
  /\ game_status \in {PyTrue, PyFalse}
  /\ game_status = PyTrue <=> win_player = None

=============================================================================
